---------------------------- MODULE Spec2Model ----------------------------
(***************************************************************************)
(* Model of src/src/main.rs: a binary Merkle hash tree built by            *)
(* MerkleTree::new from an ordered vector of Hashable items.               *)
(*                                                                         *)
(* A String is a sequence of symbols.  A symbol is either a text character *)
(* or one fingerprint block: the fixed-width hex rendering of one SHA-256  *)
(* digest, kept as a term that records the bytes that were hashed.  The    *)
(* digest is therefore collision free, which is the standing assumption of *)
(* the claims about roots; everything else (concatenation, chunking, the   *)
(* loops) is computed as the code computes it.                             *)
(***************************************************************************)
EXTENDS Integers, Sequences, FiniteSets, TLC

\* Largest number of items handed to MerkleTree::new.
MaxLen == 5

\* ------------------------------------------------------------------ strings

\* One text character of an input String.
Chr(c) == [kind |-> c, pre |-> <<>>]

\* hash_data without hasher.update(input.as_bytes()): the digest of no bytes.
hash_data_no_update(input) == << [kind |-> "sha256", pre |-> <<>>] >>

\* fn hash_data(input: &str) -> String: the digest of the bytes of input,
\* rendered by format!("{:x}") as one fixed-width block of hex digits.
hash_data(input) == << [kind |-> "sha256", pre |-> input] >>

\* hash_pair with the right operand dropped: format!("{}{}", left, left).
hash_pair_left_only(left, right) == hash_data(left \o left)

\* fn hash_pair(left, right): format!("{}{}", left, right), then hash_data.
hash_pair(left, right) == hash_data(left \o right)

\* impl Hashable for String: to_hash(&self) = hash_data(self).
to_hash(item) == hash_data(item)

\* The Strings the caller builds its input vectors from: the text "A", and
\* the text that spells the fingerprint of "A" twice over (128 hex digits).
Items ==
    { <<Chr("A")>>, to_hash(<<Chr("A")>>) \o to_hash(<<Chr("A")>>) }

RECURSIVE SeqsUpTo(_, _)
SeqsUpTo(S, n) ==
    IF n = 0 THEN { <<>> }
    ELSE LET shorter == SeqsUpTo(S, n - 1)
         IN  shorter \cup { Append(s, x) : s \in { t \in shorter : Len(t) = n - 1 }, x \in S }

\* Every Vec<String> the caller may pass, the empty one included.
Inputs == SeqsUpTo(Items, MaxLen)

\* --------------------------------------------------------------- the tree

\* The Err payload of MerkleTree::new.
ErrMsg == "Cannot create a Merkle Tree with no data."

Last(s) == s[Len(s)]

\* slice::chunks_exact(2): a trailing unpaired element is left out.
ChunksExact(layer) ==
    [ j \in 1 .. (Len(layer) \div 2) |-> SubSeq(layer, 2 * j - 1, 2 * j) ]

\* chunks(1): every element is a chunk of its own.
ChunksOfOne(layer) == [ j \in 1 .. Len(layer) |-> SubSeq(layer, j, j) ]

\* current_layer.chunks(2): consecutive non-overlapping slices of two
\* elements from index 0, the last one of one element when the length is odd.
Chunks(layer) ==
    [ j \in 1 .. ((Len(layer) + 1) \div 2) |->
        SubSeq(layer, 2 * j - 1, IF 2 * j <= Len(layer) THEN 2 * j ELSE Len(layer)) ]

\* The unpaired element is promoted as it is.
CombinedHashPromote(chunk) ==
    IF Len(chunk) = 2 THEN hash_pair(chunk[1], chunk[2]) ELSE chunk[1]

\* match chunk { [left, right] => hash_pair(left, right),
\*               [left] => hash_pair(left, left) }
CombinedHash(chunk) ==
    IF Len(chunk) = 2 THEN hash_pair(chunk[1], chunk[2])
    ELSE hash_pair(chunk[1], chunk[1])

\* The loop stops at a layer of two hashes.
LoopCondAboveTwo(ls) == Len(Last(ls)) > 2

\* The loop runs once more on a layer of one hash.
LoopCondAtLeastOne(ls) == Len(Last(ls)) >= 1

\* while layers.last().unwrap().len() > 1
LoopCond(ls) == Len(Last(ls)) > 1

\* root() panics when an unwrap meets None.
root_panics(ls) == ls = <<>> \/ Last(ls) = <<>>

\* fn root(&self): self.layers.last().unwrap().first().unwrap()
root(ls) == Last(ls)[1]

VARIABLES
    pc,               \* where the current call of MerkleTree::new stands
    data,             \* its argument
    k,                \* index of the next item of `for item in data`
    first_layer,      \* local first_layer
    layers,           \* local layers, moved into the tree on return
    next_layer,       \* local next_layer of the current loop iteration
    c,                \* index of the next chunk of `for chunk in ...`
    result,           \* what the call returned: "none", "Ok" or the Err text
    to_hash_calls,    \* calls of to_hash made by the current call
    hash_pair_calls,  \* calls of hash_pair made by the current call
    iters,            \* iterations of the while loop begun by the current call
    prev              \* the call before the current one: argument and outcome

vars == << pc, data, k, first_layer, layers, next_layer, c, result,
           to_hash_calls, hash_pair_calls, iters, prev >>

NoCall == [made |-> FALSE, data |-> <<>>, result |-> "none", layers |-> <<>>]

Init ==
    /\ pc = "idle"
    /\ data = <<>>
    /\ k = 1
    /\ first_layer = <<>>
    /\ layers = <<>>
    /\ next_layer = <<>>
    /\ c = 1
    /\ result = "none"
    /\ to_hash_calls = 0
    /\ hash_pair_calls = 0
    /\ iters = 0
    /\ prev = NoCall

\* What the caller keeps of a call that returned (tree1 in the tests).
Returned == [made |-> TRUE, data |-> data, result |-> result, layers |-> layers]

\* The caller builds two trees, one after the other, as the tests do: it
\* calls when no call was made yet, or when the first call has returned.
CanCall == pc = "idle" \/ (pc \in {"done", "err"} /\ ~prev.made)

\* MerkleTree::new entered without the guard clause.
NewUnguarded(d) ==
    /\ CanCall
    /\ prev' = IF pc = "idle" THEN prev ELSE Returned
    /\ data' = d
    /\ to_hash_calls' = 0 /\ hash_pair_calls' = 0 /\ iters' = 0
    /\ k' = 1 /\ c' = 1
    /\ first_layer' = <<>> /\ layers' = <<>> /\ next_layer' = <<>>
    /\ pc' = "leaves" /\ result' = "none"

\* MerkleTree::new entered with first_layer left over from the call before.
NewStaleBuffer(d) ==
    /\ CanCall
    /\ prev' = IF pc = "idle" THEN prev ELSE Returned
    /\ data' = d
    /\ to_hash_calls' = 0 /\ hash_pair_calls' = 0 /\ iters' = 0
    /\ k' = 1 /\ c' = 1
    /\ layers' = <<>> /\ next_layer' = <<>>
    /\ UNCHANGED first_layer
    /\ IF d = <<>>
         THEN pc' = "err" /\ result' = ErrMsg
         ELSE pc' = "leaves" /\ result' = "none"

\* The caller calls MerkleTree::new(d): the guard clause on empty data, then
\* `let mut first_layer = Vec::new()`.
New(d) ==
    /\ CanCall
    /\ prev' = IF pc = "idle" THEN prev ELSE Returned
    /\ data' = d
    /\ to_hash_calls' = 0 /\ hash_pair_calls' = 0 /\ iters' = 0
    /\ k' = 1 /\ c' = 1
    /\ first_layer' = <<>> /\ layers' = <<>> /\ next_layer' = <<>>
    /\ IF d = <<>>
         THEN pc' = "err" /\ result' = ErrMsg
         ELSE pc' = "leaves" /\ result' = "none"

\* The leaf is put in front of the ones pushed before it.
PushLeafInFront ==
    /\ pc = "leaves" /\ k <= Len(data)
    /\ first_layer' = <<to_hash(data[k])>> \o first_layer
    /\ to_hash_calls' = to_hash_calls + 1
    /\ k' = k + 1
    /\ UNCHANGED << pc, data, layers, next_layer, c, result, hash_pair_calls, iters, prev >>

\* for item in data { first_layer.push(item.to_hash()); }, one item.
PushLeaf ==
    /\ pc = "leaves" /\ k <= Len(data)
    /\ first_layer' = Append(first_layer, to_hash(data[k]))
    /\ to_hash_calls' = to_hash_calls + 1
    /\ k' = k + 1
    /\ UNCHANGED << pc, data, layers, next_layer, c, result, hash_pair_calls, iters, prev >>

\* let mut layers = Vec::new(); layers.push(first_layer);
PushFirstLayer ==
    /\ pc = "leaves" /\ k > Len(data)
    /\ layers' = <<first_layer>>
    /\ pc' = "while"
    /\ UNCHANGED << data, k, first_layer, next_layer, c, result,
                    to_hash_calls, hash_pair_calls, iters, prev >>

\* The loop condition holds: let mut next_layer = Vec::new(); and the
\* chunk iterator over layers.last() starts.
WhileEnter ==
    /\ pc = "while" /\ LoopCond(layers)
    /\ next_layer' = <<>>
    /\ c' = 1
    /\ iters' = iters + 1
    /\ pc' = "chunks"
    /\ UNCHANGED << data, k, first_layer, layers, result,
                    to_hash_calls, hash_pair_calls, prev >>

\* One chunk of the current layer: hash it and push the hash.
Chunk ==
    /\ pc = "chunks" /\ c <= Len(Chunks(Last(layers)))
    /\ next_layer' = Append(next_layer, CombinedHash(Chunks(Last(layers))[c]))
    /\ hash_pair_calls' = hash_pair_calls + 1
    /\ c' = c + 1
    /\ UNCHANGED << pc, data, k, first_layer, layers, result,
                    to_hash_calls, iters, prev >>

\* layers.push(next_layer), back to the loop condition.
PushLayer ==
    /\ pc = "chunks" /\ c > Len(Chunks(Last(layers)))
    /\ layers' = Append(layers, next_layer)
    /\ pc' = "while"
    /\ UNCHANGED << data, k, first_layer, next_layer, c, result,
                    to_hash_calls, hash_pair_calls, iters, prev >>

\* The loop condition fails: Ok(MerkleTree { layers, .. }).
WhileExit ==
    /\ pc = "while" /\ ~LoopCond(layers)
    /\ result' = "Ok"
    /\ pc' = "done"
    /\ UNCHANGED << data, k, first_layer, layers, next_layer, c,
                    to_hash_calls, hash_pair_calls, iters, prev >>

\* The steps of a call in progress.
Step ==
    \/ PushLeaf
    \/ PushFirstLayer
    \/ WhileEnter
    \/ Chunk
    \/ PushLayer
    \/ WhileExit

Next ==
    \/ \E d \in Inputs : New(d)
    \/ Step

Spec == Init /\ [][Next]_vars

\* One call of MerkleTree::new, from entry to return.
OneCall ==
    \/ \E d \in Inputs : pc = "idle" /\ New(d)
    \/ Step

\* The code is one synchronous computation: a call in progress takes its
\* next step.
LiveSpec == Init /\ [][OneCall]_vars /\ WF_vars(Step)

\* ------------------------------------------------------------ properties

InCall == pc \in {"leaves", "while", "chunks"}
HasLayers == pc \in {"while", "chunks", "done"}
PrevOk == prev.made /\ prev.result = "Ok"

\* C1: MerkleTree::new fails if and only if its input is empty.  On the empty
\* input it returns the error text, has called neither to_hash nor hash_pair
\* and has built no layer; on a non-empty input it never returns the error,
\* and what it returns is Ok.
EmptyInputIsTheOnlyFailure ==
    /\ pc = "err" =>
          /\ data = <<>>
          /\ result = ErrMsg
          /\ to_hash_calls = 0 /\ hash_pair_calls = 0
          /\ first_layer = <<>> /\ layers = <<>>
    /\ (pc # "idle" /\ data = <<>>) => pc = "err"
    /\ pc = "done" => (data # <<>> /\ result = "Ok" /\ layers # <<>>)
    /\ InCall => (data # <<>> /\ result = "none")
    /\ prev.made =>
          /\ prev.result \in {ErrMsg, "Ok"}
          /\ prev.result = ErrMsg <=> prev.data = <<>>
          /\ prev.result = ErrMsg => prev.layers = <<>>

\* An empty call has failed after a non-empty call succeeded.
EmptyInputWitness == pc = "err" /\ PrevOk /\ Len(prev.data) = 2

Ceil2(n) == (n + 1) \div 2

\* C2: from the first layer on, through the loop and in the returned tree,
\* there is at least one layer, no layer is empty, each layer after the first
\* has ceil(len/2) of the entries of the layer before it, and in the returned
\* tree the final layer, and no other, has exactly one entry.
LayerShape ==
    HasLayers =>
        /\ Len(layers) >= 1
        /\ \A i \in 1 .. Len(layers) : Len(layers[i]) >= 1
        /\ \A i \in 1 .. (Len(layers) - 1) : Len(layers[i + 1]) = Ceil2(Len(layers[i]))
        /\ pc = "done" =>
              \A i \in 1 .. Len(layers) : (Len(layers[i]) = 1) <=> (i = Len(layers))

\* A tree of five leaves has been returned: layers of 5, 3, 2 and 1.
LayerShapeWitness == pc = "done" /\ Len(data) = 5 /\ Len(layers) = 4

RECURSIVE Pow2(_)
Pow2(e) == IF e = 0 THEN 1 ELSE 2 * Pow2(e - 1)

\* ceil(log2(n)) for n >= 1: the least e with 2^e >= n.
CeilLog2(n) == CHOOSE e \in 0 .. n : Pow2(e) >= n /\ \A f \in 0 .. (e - 1) : Pow2(f) < n

\* C3: the tree returned for n items has 1 layer when n = 1 and
\* 1 + ceil(log2(n)) layers when n > 1.
LayerCountLaw ==
    pc = "done" =>
        Len(layers) = IF Len(data) = 1 THEN 1 ELSE 1 + CeilLog2(Len(data))

\* Three leaves have given three layers.
LayerCountWitness == pc = "done" /\ Len(data) = 3 /\ Len(layers) = 3

\* C4: every layer that has a successor is reduced to it pairwise, left to
\* right: entry j of the successor is hash_pair of entries 2j and 2j+1
\* (counting from 0), left operand first; the last entry of an odd layer is
\* paired with itself; no entry is the unhashed copy of its left operand.
\* The entries of the layer being built obey the same rule.
PairOf(layer, j) ==
    IF 2 * j <= Len(layer) THEN hash_pair(layer[2 * j - 1], layer[2 * j])
    ELSE hash_pair(layer[2 * j - 1], layer[2 * j - 1])

PairwiseReduction ==
    /\ HasLayers =>
          \A i \in 1 .. (Len(layers) - 1) :
              /\ Len(layers[i + 1]) = Ceil2(Len(layers[i]))
              /\ \A j \in 1 .. Len(layers[i + 1]) :
                    /\ layers[i + 1][j] = PairOf(layers[i], j)
                    /\ layers[i + 1][j] # layers[i][2 * j - 1]
    /\ pc = "chunks" =>
          /\ Len(next_layer) = c - 1
          /\ \A j \in 1 .. Len(next_layer) : next_layer[j] = PairOf(Last(layers), j)

\* A tree whose leaf layer and second layer are both odd has been returned.
PairwiseReductionWitness ==
    pc = "done" /\ Len(layers[1]) = 5 /\ Len(layers[2]) = 3 /\ data[1] # data[2]

\* C5: layer 0 has one entry per input item, and entry k is to_hash of
\* item k: the leaves are in input order, none dropped, doubled or moved.
LeafFidelity ==
    /\ HasLayers =>
          /\ Len(layers[1]) = Len(data)
          /\ \A i \in 1 .. Len(data) : layers[1][i] = to_hash(data[i])
    /\ pc = "leaves" =>
          /\ Len(first_layer) = k - 1
          /\ \A i \in 1 .. Len(first_layer) : first_layer[i] = to_hash(data[i])

\* A tree over three items, not all the same, has been returned.
LeafFidelityWitness == pc = "done" /\ Len(data) = 3 /\ data[1] # data[3]

\* C6: two calls of MerkleTree::new on the same non-empty input return the
\* same layers, all of them, and the same root.
Determinism ==
    (pc = "done" /\ prev.made /\ prev.data = data) =>
        /\ prev.result = "Ok"
        /\ prev.layers = layers
        /\ root(prev.layers) = root(layers)

\* The same four items have been built into a tree twice in a row.
DeterminismWitness ==
    pc = "done" /\ PrevOk /\ prev.data = data /\ Len(data) = 4 /\ data[1] # data[2]

\* b is a with the items at two positions, which differ, exchanged.
IsSwap(a, b) ==
    /\ Len(a) = Len(b)
    /\ \E i, j \in 1 .. Len(a) :
          /\ i < j
          /\ a[i] # a[j]
          /\ b = [a EXCEPT ![i] = a[j], ![j] = a[i]]

\* C7: with a collision-free hash, exchanging two items that differ changes
\* the root.
OrderSensitivity ==
    (pc = "done" /\ PrevOk /\ IsSwap(prev.data, data)) =>
        root(layers) # root(prev.layers)

\* Two trees over three items have been returned, the second over the input
\* of the first with two items exchanged.
OrderSensitivityWitness ==
    pc = "done" /\ PrevOk /\ IsSwap(prev.data, data) /\ Len(data) = 3

\* C8: the reduction loop terminates.  Each layer pushed inside the loop is
\* strictly shorter than the layer it was reduced from, and a call on a
\* non-empty input, once in progress, returns.
LoopTerminates ==
    /\ [][(Len(layers) >= 1 /\ Len(layers') = Len(layers) + 1) =>
            Len(layers'[Len(layers')]) < Len(Last(layers))]_vars
    /\ InCall ~> (pc = "done")

\* A call on five items has returned after three iterations of the loop.
LoopTerminatesWitness == pc = "done" /\ Len(data) = 5 /\ iters = 3

\* C9: for a single item the loop body never runs, hash_pair is never called,
\* the tree has one layer and root() is to_hash of the item.  For any
\* returned tree root() does not panic and is the only entry of the last
\* layer.
SingleItemAndRoot ==
    /\ (Len(data) = 1 /\ HasLayers) =>
          /\ pc # "chunks"
          /\ iters = 0 /\ hash_pair_calls = 0
          /\ Len(layers) = 1
          /\ ~root_panics(layers) /\ root(layers) = to_hash(data[1])
    /\ pc = "done" =>
          /\ ~root_panics(layers)
          /\ Last(layers) = << root(layers) >>

\* A tree over one item has been returned, after a tree over several.
SingleItemWitness ==
    pc = "done" /\ Len(data) = 1 /\ to_hash_calls = 1 /\ PrevOk /\ Len(prev.data) = 3

\* C10, as claimed: with a collision-free hash, two non-empty inputs that
\* differ, in some position or in length, have different roots.
RootCommitsToInput ==
    (pc = "done" /\ PrevOk /\ prev.data # data) =>
        root(layers) # root(prev.layers)

\* C10, amended: with a collision-free hash, two non-empty inputs of the same
\* length that differ in some position have different roots.
RootCommitsToInputOfEqualLength ==
    (pc = "done" /\ PrevOk /\ Len(prev.data) = Len(data) /\ prev.data # data) =>
        root(layers) # root(prev.layers)

\* Two trees over four items each have been returned, the inputs differing
\* in the last item only.
RootCommitsWitness ==
    /\ pc = "done" /\ PrevOk
    /\ Len(data) = 4 /\ Len(prev.data) = 4
    /\ SubSeq(data, 1, 3) = SubSeq(prev.data, 1, 3)
    /\ data[4] # prev.data[4]

=============================================================================
